---- MODULE Spec2Model ----
(***************************************************************************)
(* Model of the four demonstration scripts (extractCook, generateUI,       *)
(* extractStructuredData in src/01-sample-demo.mjs and checkCompliance in  *)
(* src/unnamed/part_000): one call of the generation endpoint, extraction  *)
(* of the first-"{"-to-last-"}" slice, JSON.parse, zod validation, and,    *)
(* for the form script, convertToHTML and the file write.                  *)
(*                                                                         *)
(* Representation.  A JavaScript string is a sequence of text chunks; a    *)
(* chunk is either one character or a run of lower-case, non-blank,        *)
(* characters (so "cv-form" is <<"cv-form">>).  A JavaScript value is a    *)
(* record tagged by its class in field t.                                  *)
(***************************************************************************)
EXTENDS Integers, Sequences, FiniteSets, TLC

VARIABLES
    script,     \* which of the four scripts this run executes
    apiKey,     \* process.env.GOOGLE_API_KEY is set
    pc,         \* position of the run
    outcome,    \* what model.generateContent produced (transport error or response)
    text,       \* the local `text` of the extractor
    jsonData,   \* the first-"{"-to-last-"}" slice handed to JSON.parse
    parsedData, \* the local `parsedData` of the extractor
    ret,        \* the value the extractor returned to main
    errlog,     \* console.error / console.warn messages, in order
    report,     \* what main printed about the extraction: "result" or "no result"
    calls,      \* number of model.generateContent calls issued
    steps,      \* extraction stages entered so far
    ui,         \* argument of convertToHTML
    idx,        \* forEach position inside convertToHTML (1-based)
    html,       \* the local `html` of convertToHTML, one fragment per `html +=`
    inList,     \* the local `inList` of convertToHTML
    uncaught,   \* an exception left main(): the promise it returned was rejected
    exitCode    \* process exit status once the process has ended

vars == <<script, apiKey, pc, outcome, text, jsonData, parsedData, ret, errlog,
          report, calls, steps, ui, idx, html, inList, uncaught, exitCode>>

(***************************************************************************)
(* JavaScript values                                                       *)
(***************************************************************************)
Undefined == [t |-> "undefined"]
JNull == [t |-> "null"]
JNum == [t |-> "number"]
JStr(s) == [t |-> "string", s |-> s]
JBool(b) == [t |-> "boolean", b |-> b]
JArr(items) == [t |-> "array", items |-> items]
JObj(f) == [t |-> "object", f |-> f]

EmptyObj == [k \in {} |-> Undefined]

\* one console.error / console.warn call: its message and the class of the error
\* object printed with it ("none" when it prints no error object)
Log(msg, error) == [msg |-> msg, error |-> error]

\* o.k for an object o: undefined when the key is absent
Get(o, k) == IF o.t = "object" /\ k \in DOMAIN o.f THEN o.f[k] ELSE Undefined

\* JavaScript truthiness, as used by `if (x)`, `x || y`, `!x`
Truthy(v) ==
    CASE v.t = "undefined" -> FALSE
      [] v.t = "null" -> FALSE
      [] v.t = "string" -> v.s # <<>>
      [] v.t = "boolean" -> v.b
      [] OTHER -> TRUE

\* `x || ''` interpolated into a template literal
OrEmpty(v) == IF Truthy(v) THEN v.s ELSE <<>>

(***************************************************************************)
(* convertToHTML  (src/01-sample-demo.mjs:162-239)                         *)
(***************************************************************************)
ElementTypes ==
    {"section-header", "text-input", "textarea", "date-input", "email-input",
     "phone-input", "url-input", "bullet-list-item", "submit-button"}

InputTypes ==
    {"text-input", "textarea", "date-input", "email-input", "phone-input", "url-input"}

\* one `html += ...`: the markup's tag and the values interpolated into it
Frag(tag, args) == [tag |-> tag, args |-> args]

TypeOf(element) == Get(element, "type").s[1]

\* element.type.replace('-input', '')
InputType(type) ==
    CASE type = "text-input" -> "text"
      [] type = "date-input" -> "date"
      [] type = "email-input" -> "email"
      [] type = "phone-input" -> "phone"
      [] type = "url-input" -> "url"
      [] OTHER -> type

IsBlank(c) == c \in {" ", "\t", "\n"}

\* String.prototype.toLowerCase, chunk by chunk
ToLowerCase(c) ==
    CASE c = "F" -> "f"
      [] c = "N" -> "n"
      [] c = "S" -> "s"
      [] OTHER -> c

\* label.toLowerCase().replace(/\s+/g, "-"): each run of blanks becomes one hyphen
RECURSIVE Slug(_)
Slug(s) ==
    IF s = <<>> THEN <<>>
    ELSE IF IsBlank(Head(s))
         THEN IF Len(s) > 1 /\ IsBlank(s[2]) THEN Slug(Tail(s))
              ELSE <<"-">> \o Slug(Tail(s))
         ELSE <<ToLowerCase(Head(s))>> \o Slug(Tail(s))

\* element.name || element.label.toLowerCase().replace(/\s+/g, "-")
FieldId(element) ==
    IF Truthy(Get(element, "name")) THEN Get(element, "name").s
    ELSE Slug(Get(element, "label").s)

Emit(st, frag) == [st EXCEPT !.html = Append(st.html, frag)]

EmitIf(cond, st, frag) == IF cond THEN Emit(st, frag) ELSE st

\* if (inList) { html += `  </ul>\n`; inList = false; }
CloseList(st) ==
    IF st.inList
    THEN [html |-> Append(st.html, Frag("</ul>", <<>>)), inList |-> FALSE]
    ELSE st

\* case "section-header"
RenderSectionHeader(st, element) ==
    Emit(CloseList(st), Frag("<h2>", <<OrEmpty(Get(element, "label"))>>))

\* case "text-input" ... "url-input"
RenderInput(st, element) ==
    LET type == TypeOf(element)
        label == Get(element, "label")
        name == Get(element, "name")
        s1 == Emit(CloseList(st), Frag("<div>", <<>>))
        s2 == EmitIf(Truthy(label), s1, Frag("<label>", <<FieldId(element), label.s>>))
        s3 == IF type = "textarea" THEN Emit(s2, Frag("<textarea", <<>>))
              ELSE Emit(s2, Frag("<input", <<<<InputType(type)>>>>))
        s4 == EmitIf(Truthy(name), s3, Frag("name=", <<name.s>>))
        s5 == EmitIf(Truthy(label), s4, Frag("id=", <<FieldId(element)>>))
        s6 == EmitIf(Truthy(Get(element, "required")), s5, Frag("required", <<>>))
        s7 == EmitIf(Truthy(Get(element, "placeholder")), s6,
                     Frag("placeholder=", <<Get(element, "placeholder").s>>))
        s8 == IF type = "textarea" THEN Emit(s7, Frag("></textarea>", <<>>))
              ELSE Emit(s7, Frag(">", <<>>))
    IN  Emit(s8, Frag("</div>", <<>>))

\* mutant: the item opens a list but never records that one is open
RenderBulletItemNoFlag(st, element) ==
    LET opened == IF ~st.inList
                  THEN [html |-> Append(st.html, Frag("<ul>", <<>>)), inList |-> FALSE]
                  ELSE st
    IN  Emit(opened, Frag("<li>", <<OrEmpty(Get(element, "value"))>>))

\* mutant: every item is wrapped in a list of its own
RenderBulletItemOwnList(st, element) ==
    LET closed == CloseList(st)
        opened == [html |-> Append(closed.html, Frag("<ul>", <<>>)), inList |-> TRUE]
    IN  Emit(opened, Frag("<li>", <<OrEmpty(Get(element, "value"))>>))

\* case "bullet-list-item"
RenderBulletItem(st, element) ==
    LET opened == IF ~st.inList
                  THEN [html |-> Append(st.html, Frag("<ul>", <<>>)), inList |-> TRUE]
                  ELSE st
    IN  Emit(opened, Frag("<li>", <<OrEmpty(Get(element, "value"))>>))

\* case "submit-button"
RenderSubmit(st, element) ==
    LET name == Get(element, "name")
        label == Get(element, "label")
        s1 == Emit(CloseList(st), Frag("<button", <<>>))
        s2 == EmitIf(Truthy(name), s1, Frag("name=", <<name.s>>))
    IN  Emit(s2, Frag("></button>",
                      <<IF Truthy(label) THEN label.s ELSE <<"S", "ubmit">> >>))

\* mutant: the default label sits on top of the input cases (a fall-through)
RenderDefaultFallsThrough(st, element) ==
    Emit(Emit(CloseList(st), Frag("<div>", <<>>)), Frag("</div>", <<>>))

\* default: console.warn and nothing else
RenderDefault(st, element) == st

\* the switch of the forEach callback
RenderElement(st, element) ==
    LET type == TypeOf(element)
    IN  CASE type = "section-header" -> RenderSectionHeader(st, element)
          [] type \in InputTypes -> RenderInput(st, element)
          [] type = "bullet-list-item" -> RenderBulletItem(st, element)
          [] type = "submit-button" -> RenderSubmit(st, element)
          [] OTHER -> RenderDefault(st, element)

\* if (ui.elements && ui.elements.length > 0): the elements the loop visits
LoopElements(u) ==
    IF Truthy(Get(u, "elements")) /\ Get(u, "elements").t = "array"
    THEN Get(u, "elements").items
    ELSE <<>>

RenderStart == [html |-> <<Frag("<form>", <<>>)>>, inList |-> FALSE]

\* if (inList) html += `  </ul>\n`;  html += `</form>\n`;  (inList is not reset)
RenderFinish(st) ==
    [html |-> (IF st.inList THEN Append(st.html, Frag("</ul>", <<>>)) ELSE st.html)
                  \o <<Frag("</form>", <<>>)>>,
     inList |-> st.inList]

\* the forEach: the elements in order, each applied to the state the previous one
\* left (the singleton set only names that intermediate state as a value)
RECURSIVE RenderAll(_, _)
RenderAll(st, elements) ==
    IF elements = <<>> THEN st
    ELSE LET after == {RenderElement(st, Head(elements))}
         IN  CHOOSE r \in {RenderAll(s, Tail(elements)) : s \in after} : TRUE

convertToHTML(u) == RenderFinish(RenderAll(RenderStart, LoopElements(u))).html

(***************************************************************************)
(* convertToHTML as a state machine: one action per case of the switch,    *)
(* one forEach iteration per step.                                         *)
(***************************************************************************)
MaxElems == 4

SeqsUpTo(S, n) == UNION {[1..k -> S] : k \in 0..n}

Str(chunk) == JStr(<<chunk>>)

RenderElements ==
    { JObj([type |-> Str("section-header"), label |-> JStr(<<"S", "kills">>)]),
      JObj([type |-> Str("text-input"), label |-> JStr(<<"F", "ull", " ", " ", "N", "ame">>)]),
      JObj([type |-> Str("textarea"), label |-> JStr(<<"S", "ummary">>),
            name |-> Str("summary"), required |-> JBool(TRUE),
            placeholder |-> JStr(<<"about", " ", "you">>)]),
      JObj([type |-> Str("bullet-list-item"), value |-> Str("go")]),
      JObj([type |-> Str("bullet-list-item"), value |-> Str("rust")]),
      JObj([type |-> Str("bullet-list-item")]),
      JObj([type |-> Str("submit-button"), label |-> JStr(<<"S", "end">>)]),
      JObj([type |-> Str("checkbox"), label |-> Str("agree")]) }

RenderUIs ==
    {JObj([type |-> Str("cv-form"), elements |-> JArr(s)]) :
        s \in SeqsUpTo(RenderElements, MaxElems)}
    \cup {JObj([type |-> Str("cv-form")])}

UnknownTypeWarning == Log("Unknown element type:", "none")

RenderInit ==
    /\ script = "generateUI"
    /\ apiKey = TRUE
    /\ pc = "render_loop"
    /\ outcome = Undefined
    /\ text = Undefined
    /\ jsonData = Undefined
    /\ parsedData = Undefined
    /\ ret = Undefined
    /\ errlog = <<>>
    /\ report = "none"
    /\ calls = 0
    /\ steps = {}
    /\ ui \in RenderUIs
    /\ idx = 1
    /\ html = RenderStart.html
    /\ inList = RenderStart.inList
    /\ uncaught = FALSE
    /\ exitCode = -1

Current == LoopElements(ui)[idx]

AtElement == pc = "render_loop" /\ idx <= Len(LoopElements(ui))

RenderState == [html |-> html, inList |-> inList]

Advance(st) ==
    /\ html' = st.html
    /\ inList' = st.inList
    /\ idx' = idx + 1
    /\ UNCHANGED <<script, apiKey, pc, outcome, text, jsonData, parsedData, ret,
                   report, calls, steps, ui, uncaught, exitCode>>

SectionHeaderCase ==
    /\ AtElement
    /\ TypeOf(Current) = "section-header"
    /\ Advance(RenderSectionHeader(RenderState, Current))
    /\ UNCHANGED errlog

InputCase ==
    /\ AtElement
    /\ TypeOf(Current) \in InputTypes
    /\ Advance(RenderInput(RenderState, Current))
    /\ UNCHANGED errlog

BulletItemCase ==
    /\ AtElement
    /\ TypeOf(Current) = "bullet-list-item"
    /\ Advance(RenderBulletItem(RenderState, Current))
    /\ UNCHANGED errlog

SubmitCase ==
    /\ AtElement
    /\ TypeOf(Current) = "submit-button"
    /\ Advance(RenderSubmit(RenderState, Current))
    /\ UNCHANGED errlog

DefaultCase ==
    /\ AtElement
    /\ TypeOf(Current) \notin ElementTypes
    /\ Advance(RenderDefault(RenderState, Current))
    /\ errlog' = Append(errlog, UnknownTypeWarning)

ReturnHtml ==
    /\ pc = "render_loop"
    /\ idx > Len(LoopElements(ui))
    /\ html' = RenderFinish(RenderState).html
    /\ inList' = RenderFinish(RenderState).inList
    /\ pc' = "render_done"
    /\ UNCHANGED <<script, apiKey, outcome, text, jsonData, parsedData, ret, errlog,
                   report, calls, steps, ui, idx, uncaught, exitCode>>

RenderNext ==
    \/ SectionHeaderCase
    \/ InputCase
    \/ BulletItemCase
    \/ SubmitCase
    \/ DefaultCase
    \/ ReturnHtml

RenderSpec == RenderInit /\ [][RenderNext]_vars

(***************************************************************************)
(* The raw model output.  A text is a sequence of units: a brace, a blank, *)
(* a piece of prose without braces, or one complete JSON member            *)
(* `"key": value` (with the comma that separates it from its neighbour);   *)
(* a member's value is given already as the JavaScript value it denotes.   *)
(***************************************************************************)
LB == [u |-> "{"]
RB == [u |-> "}"]
Prose == [u |-> "prose"]
Blank == [u |-> " "]
Member(k, v) == [u |-> "member", k |-> k, v |-> v]

\* String.prototype.trim
RECURSIVE Trim(_)
Trim(s) ==
    IF s = <<>> THEN s
    ELSE IF Head(s).u = " " THEN Trim(Tail(s))
    ELSE IF s[Len(s)].u = " " THEN Trim(SubSeq(s, 1, Len(s) - 1))
    ELSE s

Min(S) == CHOOSE x \in S : \A y \in S : x <= y

Max(S) == CHOOSE x \in S : \A y \in S : x >= y

\* text.indexOf(c): 0-based, -1 when absent
IndexOf(s, c) ==
    LET at == {i \in 1..Len(s) : s[i].u = c}
    IN  IF at = {} THEN -1 ELSE Min(at) - 1

\* text.lastIndexOf(c)
LastIndexOf(s, c) ==
    LET at == {i \in 1..Len(s) : s[i].u = c}
    IN  IF at = {} THEN -1 ELSE Max(at) - 1

\* text.substring(from, to), for 0 <= from <= to <= length
Substring(s, from, to) == SubSeq(s, from + 1, to)

\* jsonStartIndex === -1 || jsonEndIndex === -1 || jsonStartIndex >= jsonEndIndex
NoJsonObject(s) ==
    \/ IndexOf(s, "{") = -1
    \/ LastIndexOf(s, "}") = -1
    \/ IndexOf(s, "{") >= LastIndexOf(s, "}")

\* text.substring(jsonStartIndex, jsonEndIndex + 1)
JsonSlice(s) == Substring(s, IndexOf(s, "{"), LastIndexOf(s, "}") + 1)

\* JSON.parse of a text: an object is "{", members and blanks, "}"; prose or a
\* further brace between the outer braces is a syntax error; of two members with
\* the same key the later one wins.
JsonParse(s) ==
    LET n == Len(s)
        wellFormed ==
            /\ n >= 2
            /\ s[1].u = "{"
            /\ s[n].u = "}"
            /\ \A i \in 2..(n - 1) : s[i].u \in {"member", " "}
        at(k) == {i \in 2..(n - 1) : s[i].u = "member" /\ s[i].k = k}
        keys == {s[i].k : i \in {j \in 2..(n - 1) : s[j].u = "member"}}
    IN  IF wellFormed
        THEN [ok |-> TRUE, value |-> JObj([k \in keys |-> s[Max(at(k))].v])]
        ELSE [ok |-> FALSE, value |-> Undefined]

(***************************************************************************)
(* zod schemas and Schema.parse.  z.object() keeps the declared keys only: *)
(* keys of the input that the shape does not declare are stripped from the *)
(* value it returns (zod's default for unknown keys).                      *)
(***************************************************************************)
ZString == [z |-> "string"]
ZBoolean == [z |-> "boolean"]
ZEnum(values) == [z |-> "enum", values |-> values]
ZLiteral(value) == [z |-> "literal", value |-> value]
ZOptional(inner) == [z |-> "optional", inner |-> inner]
ZNullable(inner) == [z |-> "nullable", inner |-> inner]
ZArray(element) == [z |-> "array", element |-> element]
ZObject(shape) == [z |-> "object", shape |-> shape]

Invalid == [ok |-> FALSE, data |-> Undefined]

RECURSIVE ZodParse(_, _)
ZodParse(schema, v) ==
    CASE schema.z = "string" -> IF v.t = "string" THEN [ok |-> TRUE, data |-> v] ELSE Invalid
      [] schema.z = "boolean" -> IF v.t = "boolean" THEN [ok |-> TRUE, data |-> v] ELSE Invalid
      [] schema.z = "enum" ->
            IF v.t = "string" /\ v.s \in schema.values
            THEN [ok |-> TRUE, data |-> v] ELSE Invalid
      [] schema.z = "literal" ->
            IF v = schema.value THEN [ok |-> TRUE, data |-> v] ELSE Invalid
      [] schema.z = "optional" ->
            IF v.t = "undefined" THEN [ok |-> TRUE, data |-> v]
            ELSE ZodParse(schema.inner, v)
      [] schema.z = "nullable" ->
            IF v.t = "null" THEN [ok |-> TRUE, data |-> v]
            ELSE ZodParse(schema.inner, v)
      [] schema.z = "array" ->
            IF v.t # "array" THEN Invalid
            ELSE LET rs == [i \in 1..Len(v.items) |-> ZodParse(schema.element, v.items[i])]
                 IN  IF \A i \in 1..Len(v.items) : rs[i].ok
                     THEN [ok |-> TRUE,
                           data |-> JArr([i \in 1..Len(v.items) |-> rs[i].data])]
                     ELSE Invalid
      [] schema.z = "object" ->
            IF v.t # "object" THEN Invalid
            ELSE LET rs == [k \in DOMAIN schema.shape |-> ZodParse(schema.shape[k], Get(v, k))]
                     kept == {k \in DOMAIN schema.shape :
                                 k \in DOMAIN v.f \/ rs[k].data.t # "undefined"}
                 IN  IF \A k \in DOMAIN schema.shape : rs[k].ok
                     THEN [ok |-> TRUE, data |-> JObj([k \in kept |-> rs[k].data])]
                     ELSE Invalid

CookBook ==
    ZObject([name |-> ZString,
             timeToCook |-> ZString,
             ingredients |-> ZArray(ZString)])

CVElement ==
    ZObject([type |-> ZEnum({<<t>> : t \in ElementTypes}),
             label |-> ZOptional(ZString),
             name |-> ZOptional(ZString),
             required |-> ZOptional(ZBoolean),
             placeholder |-> ZOptional(ZString),
             value |-> ZOptional(ZString)])

CVForm ==
    ZObject([type |-> ZLiteral(JStr(<<"cv-form">>)),
             elements |-> ZArray(CVElement)])

Step ==
    ZObject([explanation |-> ZString,
             output |-> ZString])

GuideSteps == ZObject([steps |-> ZArray(Step)])

ContentCompliance ==
    ZObject([is_violating |-> ZBoolean,
             category |-> ZNullable(ZEnum({<<"violence">>, <<"sexual">>, <<"self_harm">>})),
             explanation_if_violating |-> ZNullable(ZString)])

Scripts == {"extractCook", "generateUI", "extractStructuredData", "checkCompliance"}

SchemaOf(s) ==
    CASE s = "extractCook" -> CookBook
      [] s = "generateUI" -> CVForm
      [] s = "extractStructuredData" -> GuideSteps
      [] s = "checkCompliance" -> ContentCompliance

(***************************************************************************)
(* Reading the text out of the endpoint's response                         *)
(***************************************************************************)
\* a[i] for a 0-based index: undefined out of range or when a is no array
Idx(a, i) == IF a.t = "array" /\ i + 1 <= Len(a.items) THEN a.items[i + 1] ELSE Undefined

\* response?.candidates?.[0]?.content?.parts?.[0]?.text
ChainedText(response) ==
    Get(Idx(Get(Get(Idx(Get(response, "candidates"), 0), "content"), "parts"), 0), "text")

\* !response || !response.candidates || response.candidates.length === 0 || ...
UnexpectedFormat(response) ==
    \/ ~Truthy(response)
    \/ ~Truthy(Get(response, "candidates"))
    \/ Len(Get(response, "candidates").items) = 0
    \/ ~Truthy(Get(Idx(Get(response, "candidates"), 0), "content"))
    \/ ~Truthy(Get(Get(Idx(Get(response, "candidates"), 0), "content"), "parts"))
    \/ Len(Get(Get(Idx(Get(response, "candidates"), 0), "content"), "parts").items) = 0

\* the scripts that test the response field by field and then trim the text
ChecksFieldByField(s) == s \in {"extractCook", "extractStructuredData"}

NoTextMessage(s) ==
    IF ChecksFieldByField(s) THEN "Unexpected response format from Gemini:"
    ELSE "Model returned no text."

NoJsonMessage == "Could not find a valid JSON object in the response:"

ParseMessage == "Failed to parse JSON string:"

CatchMessage(s) ==
    IF s \in {"extractCook", "generateUI"}
    THEN "Failed to process Gemini response or validate data:"
    ELSE "Failed to process Gemini response:"

\* the outer catch block: the message with the error, and the zod issues where
\* the script tests `error instanceof z.ZodError`
Caught(s, error) ==
    <<Log(CatchMessage(s), error)>>
    \o (IF error = "ZodError" /\ s # "extractCook"
        THEN <<Log("Zod validation failed:", "none")>> ELSE <<>>)

\* from `await result.response` to the text the braces are scanned in:
\* "none" (the no-text return), "throw" (a TypeError reaches the catch) or "ok"
ReadText(s, response) ==
    IF ChecksFieldByField(s)
    THEN IF UnexpectedFormat(response) THEN [status |-> "none", text |-> Undefined]
         ELSE LET raw == ChainedText(response)
              IN  IF raw.t = "string" THEN [status |-> "ok", text |-> JStr(Trim(raw.s))]
                  ELSE [status |-> "throw", text |-> Undefined]
    ELSE LET raw == ChainedText(response)
         IN  IF ~Truthy(raw) THEN [status |-> "none", text |-> Undefined]
             ELSE [status |-> "ok", text |-> raw]

(***************************************************************************)
(* What the endpoint may return                                            *)
(***************************************************************************)
MaxLen == 3
MaxSteps == 2
MaxFormElems == 2

Absent == Undefined

\* all member sequences that give each key, in order, one of its values or leave it out
RECURSIVE MemberSeqs(_)
MemberSeqs(options) ==
    IF options = <<>> THEN {<<>>}
    ELSE {(IF v = Absent THEN <<>> ELSE <<Member(Head(options)[1], v)>>) \o rest :
            v \in Head(options)[2], rest \in MemberSeqs(Tail(options))}

StepInputs ==
    { JObj([explanation |-> Str("acclimatize"), output |-> Str("basecamp")]),
      JObj([explanation |-> Str("acclimatize")]),
      JObj([explanation |-> Str("acclimatize"), output |-> Str("basecamp"),
            duration |-> JNum]) }

FormElementInputs ==
    { JObj([type |-> Str("section-header"), label |-> JStr(<<"S", "kills">>)]),
      JObj([type |-> Str("bullet-list-item"), value |-> Str("go")]),
      JObj([type |-> Str("checkbox"), label |-> Str("agree")]),
      JObj([type |-> Str("text-input"), name |-> Str("email"), pattern |-> Str("x")]) }

PayloadOptions(s) ==
    CASE s = "extractCook" ->
            << <<"name", {Absent, Str("eggs"), JNum}>>,
               <<"timeToCook", {Str("5min"), JNull}>>,
               <<"ingredients", {Absent, JArr(<<Str("egg"), Str("milk")>>),
                                 JArr(<<Str("egg"), JNum>>)}>>,
               <<"servings", {Absent, JNum}>> >>
      [] s = "checkCompliance" ->
            << <<"is_violating", {Absent, JBool(TRUE), JBool(FALSE), Str("no")}>>,
               <<"category", {Absent, JNull, Str("violence"), Str("vandalism")}>>,
               <<"explanation_if_violating", {JNull, Str("paint")}>>,
               <<"confidence", {Absent, JNum}>> >>
      [] s = "extractStructuredData" ->
            << <<"steps", {Absent, JNull}
                          \cup {JArr(q) : q \in SeqsUpTo(StepInputs, MaxSteps)}>>,
               <<"title", {Absent, Str("everest")}>> >>
      [] s = "generateUI" ->
            << <<"type", {Absent, Str("cv-form"), Str("form")}>>,
               <<"elements", {Absent}
                             \cup {JArr(q) : q \in SeqsUpTo(FormElementInputs, MaxFormElems)}>>,
               <<"title", {Absent, Str("cv")}>> >>

\* what the model may write before and after the JSON object
Prefixes == {<<>>, <<Blank, Prose>>, <<RB, Prose>>, <<LB>>}

Suffixes == {<<>>, <<Prose, Blank>>, <<LB>>, <<Prose, RB>>}

PayloadTexts(s) ==
    {pre \o <<LB>> \o ms \o <<RB>> \o post :
        pre \in Prefixes, ms \in MemberSeqs(PayloadOptions(s)), post \in Suffixes}

\* every short text of braces, blanks and prose (the empty text among them)
BraceTexts == SeqsUpTo({LB, RB, Prose, Blank}, MaxLen)

\* a payload that names a key twice
RepeatedKeyText ==
    <<LB, Member("steps", JNull), Member("steps", JArr(<<>>)), RB>>

TextInputs(s) == BraceTexts \cup PayloadTexts(s) \cup {RepeatedKeyText}

Candidate(content) == JObj([candidates |-> JArr(<<content>>)])

WithParts(parts) == Candidate(JObj([content |-> JObj([parts |-> JArr(parts)])]))

\* responses that carry no text at candidates[0].content.parts[0].text
TextlessResponses ==
    { Undefined,
      JObj(EmptyObj),
      JObj([candidates |-> JArr(<<>>)]),
      Candidate(JObj(EmptyObj)),
      Candidate(JObj([content |-> JObj(EmptyObj)])),
      WithParts(<<>>),
      WithParts(<<JObj(EmptyObj)>>) }

Responses(s) ==
    TextlessResponses \cup {WithParts(<<JObj([text |-> JStr(t)])>>) : t \in TextInputs(s)}

Rejected == [t |-> "rejected"]

(***************************************************************************)
(* One run of a script                                                     *)
(***************************************************************************)
Init ==
    /\ script \in Scripts
    /\ apiKey \in BOOLEAN
    /\ pc = "startup"
    /\ outcome = Undefined
    /\ text = Undefined
    /\ jsonData = Undefined
    /\ parsedData = Undefined
    /\ ret = Undefined
    /\ errlog = <<>>
    /\ report = "none"
    /\ calls = 0
    /\ steps = {}
    /\ ui = Undefined
    /\ idx = 1
    /\ html = <<>>
    /\ inList = FALSE
    /\ uncaught = FALSE
    /\ exitCode = -1

renderVars == <<ui, idx, html, inList>>

\* mutant: a failed extraction prompts the endpoint again
ReturnValueOrRetry(v) ==
    /\ ret' = v
    /\ pc' = IF Truthy(v) THEN "result" ELSE "call"

\* `return v` in the extractor: main's `await` resumes with v
ReturnValue(v) ==
    /\ ret' = v
    /\ pc' = "result"

\* if (!apiKey) { console.error(...); process.exit(1); }
Startup ==
    /\ pc = "startup"
    /\ IF ~apiKey
       THEN /\ errlog' = Append(errlog,
                            Log("GOOGLE_API_KEY not found in environment variables.", "none"))
            /\ exitCode' = 1
            /\ pc' = "exited"
       ELSE /\ pc' = "main"
            /\ UNCHANGED <<errlog, exitCode>>
    /\ UNCHANGED <<script, apiKey, outcome, text, jsonData, parsedData, ret, report,
                   calls, steps, uncaught>>
    /\ UNCHANGED renderVars

\* main() logs the prompt and calls the extractor
MainCall ==
    /\ pc = "main"
    /\ pc' = "call"
    /\ UNCHANGED <<script, apiKey, outcome, text, jsonData, parsedData, ret, errlog,
                   report, calls, steps, uncaught, exitCode>>
    /\ UNCHANGED renderVars

\* await model.generateContent(...) resolves
GenerateContentResolves ==
    /\ pc = "call"
    /\ \E r \in Responses(script) : outcome' = r
    /\ calls' = calls + 1
    /\ pc' = "response"
    /\ UNCHANGED <<script, apiKey, text, jsonData, parsedData, ret, errlog, report,
                   steps, uncaught, exitCode>>
    /\ UNCHANGED renderVars

\* await model.generateContent(...) rejects: the outer catch returns null
GenerateContentRejects ==
    /\ pc = "call"
    /\ outcome' = Rejected
    /\ calls' = calls + 1
    /\ errlog' = errlog \o Caught(script, "TransportError")
    /\ ReturnValue(JNull)
    /\ UNCHANGED <<script, apiKey, text, jsonData, parsedData, report, steps,
                   uncaught, exitCode>>
    /\ UNCHANGED renderVars

\* the response check and the read of parts[0].text
ReadResponse ==
    /\ pc = "response"
    /\ LET r == ReadText(script, outcome)
       IN  CASE r.status = "none" ->
                    /\ errlog' = Append(errlog, Log(NoTextMessage(script), "none"))
                    /\ ReturnValue(JNull)
                    /\ UNCHANGED text
             [] r.status = "throw" ->
                    /\ errlog' = errlog \o Caught(script, "TypeError")
                    /\ ReturnValue(JNull)
                    /\ UNCHANGED text
             [] r.status = "ok" ->
                    /\ text' = r.text
                    /\ pc' = "scan"
                    /\ UNCHANGED <<errlog, ret>>
    /\ UNCHANGED <<script, apiKey, outcome, jsonData, parsedData, report, calls, steps,
                   uncaught, exitCode>>
    /\ UNCHANGED renderVars

\* indexOf('{'), lastIndexOf('}'), the index test and the substring
ScanBraces ==
    /\ pc = "scan"
    /\ steps' = steps \cup {"scan"}
    /\ IF NoJsonObject(text.s)
       THEN /\ errlog' = Append(errlog, Log(NoJsonMessage, "none"))
            /\ ReturnValue(JNull)
            /\ UNCHANGED <<text, jsonData>>
       ELSE /\ jsonData' = JStr(JsonSlice(text.s))
            /\ text' = IF ChecksFieldByField(script) THEN JStr(JsonSlice(text.s)) ELSE text
            /\ pc' = "parse"
            /\ UNCHANGED <<errlog, ret>>
    /\ UNCHANGED <<script, apiKey, outcome, parsedData, report, calls, uncaught, exitCode>>
    /\ UNCHANGED renderVars

\* the inner try: JSON.parse
ParseJson ==
    /\ pc = "parse"
    /\ steps' = steps \cup {"parse"}
    /\ LET p == JsonParse(jsonData.s)
       IN  IF p.ok
           THEN /\ parsedData' = p.value
                /\ pc' = "validate"
                /\ UNCHANGED <<errlog, ret>>
           ELSE /\ errlog' = Append(errlog, Log(ParseMessage, "SyntaxError"))
                /\ ReturnValue(JNull)
                /\ UNCHANGED parsedData
    /\ UNCHANGED <<script, apiKey, outcome, text, jsonData, report, calls, uncaught,
                   exitCode>>
    /\ UNCHANGED renderVars

\* return Schema.parse(parsedData); a ZodError reaches the outer catch
Validate ==
    /\ pc = "validate"
    /\ steps' = steps \cup {"validate"}
    /\ LET z == ZodParse(SchemaOf(script), parsedData)
       IN  IF z.ok
           THEN /\ ReturnValue(z.data)
                /\ UNCHANGED errlog
           ELSE /\ errlog' = errlog \o Caught(script, "ZodError")
                /\ ReturnValue(JNull)
    /\ UNCHANGED <<script, apiKey, outcome, text, jsonData, parsedData, report, calls,
                   uncaught, exitCode>>
    /\ UNCHANGED renderVars

\* main's `if (result) ... else console.log("Failed to ...")`
MainResult ==
    /\ pc = "result"
    /\ IF ~Truthy(ret)
       THEN report' = "no result" /\ pc' = "returned"
       ELSE IF script = "generateUI"
            THEN pc' = "render" /\ UNCHANGED report
            ELSE report' = "result" /\ pc' = "returned"
    /\ UNCHANGED <<script, apiKey, outcome, text, jsonData, parsedData, ret, errlog,
                   calls, steps, uncaught, exitCode>>
    /\ UNCHANGED renderVars

\* const html = convertToHTML(ui); the structure and the markup are logged
Render ==
    /\ pc = "render"
    /\ ui' = ret
    /\ html' = convertToHTML(ret)
    /\ report' = "result"
    /\ pc' = "write"
    /\ UNCHANGED <<script, apiKey, outcome, text, jsonData, parsedData, ret, errlog,
                   calls, steps, idx, inList, uncaught, exitCode>>

\* fs.writeFileSync("generated-cv-form.html", htmlDocument) returns
WriteFileSucceeds ==
    /\ pc = "write"
    /\ pc' = "returned"
    /\ UNCHANGED <<script, apiKey, outcome, text, jsonData, parsedData, ret, errlog,
                   report, calls, steps, uncaught, exitCode>>
    /\ UNCHANGED renderVars

\* fs.writeFileSync throws (the file cannot be written): no try encloses it, main's
\* promise is rejected, nothing handles the rejection and the process ends with
\* status 1
WriteFileThrows ==
    /\ pc = "write"
    /\ uncaught' = TRUE
    /\ exitCode' = 1
    /\ pc' = "exited"
    /\ UNCHANGED <<script, apiKey, outcome, text, jsonData, parsedData, ret, errlog,
                   report, calls, steps>>
    /\ UNCHANGED renderVars

\* main's promise is fulfilled and nothing is left to run
ProcessExit ==
    /\ pc = "returned"
    /\ exitCode' = 0
    /\ pc' = "exited"
    /\ UNCHANGED <<script, apiKey, outcome, text, jsonData, parsedData, ret, errlog,
                   report, calls, steps, uncaught>>
    /\ UNCHANGED renderVars

Next ==
    \/ Startup
    \/ MainCall
    \/ GenerateContentResolves
    \/ GenerateContentRejects
    \/ ReadResponse
    \/ ScanBraces
    \/ ParseJson
    \/ Validate
    \/ MainResult
    \/ Render
    \/ WriteFileSucceeds
    \/ WriteFileThrows
    \/ ProcessExit

Spec == Init /\ [][Next]_vars

(***************************************************************************)
(* Properties of convertToHTML (checked under RenderSpec)                  *)
(***************************************************************************)
Positions(h, tag) == {j \in 1..Len(h) : h[j].tag = tag}

Count(h, tag) == Cardinality(Positions(h, tag))

\* list containers open after the fragments of h
Depth(h) == Count(h, "<ul>") - Count(h, "</ul>")

IsItem(element) == TypeOf(element) = "bullet-list-item"

IsListTag(frag) == frag.tag \in {"<ul>", "</ul>"}

\* the maximal runs of consecutive bullet-list-item elements, as <<first, last>>
MaximalRuns(elements) ==
    {r \in (1..Len(elements)) \X (1..Len(elements)) :
        /\ r[1] <= r[2]
        /\ \A i \in r[1]..r[2] : IsItem(elements[i])
        /\ (r[1] = 1 \/ ~IsItem(elements[r[1] - 1]))
        /\ (r[2] = Len(elements) \/ ~IsItem(elements[r[2] + 1]))}

\* position in h of the <li> of the element at index i (the k-th item is the k-th <li>)
ItemPos(h, elements, i) ==
    LET k == Cardinality({j \in 1..i : IsItem(elements[j])})
    IN  CHOOSE p \in Positions(h, "<li>") :
            Cardinality({q \in Positions(h, "<li>") : q <= p}) = k

ExampleElements ==
    << JObj([type |-> Str("section-header"), label |-> JStr(<<"S", "kills">>)]),
       JObj([type |-> Str("bullet-list-item"), value |-> Str("go")]),
       JObj([type |-> Str("bullet-list-item"), value |-> Str("rust")]),
       JObj([type |-> Str("submit-button"), label |-> JStr(<<"S", "end">>)]) >>

ExampleMarkup ==
    << Frag("<form>", <<>>), Frag("<h2>", <<<<"S", "kills">>>>),
       Frag("<ul>", <<>>), Frag("<li>", <<<<"go">>>>), Frag("<li>", <<<<"rust">>>>),
       Frag("</ul>", <<>>),
       Frag("<button", <<>>), Frag("></button>", <<<<"S", "end">>>>),
       Frag("</form>", <<>>) >>

\* C1: in the returned markup every maximal run of consecutive bullet-list-item
\* elements lies inside one list container: its items are adjacent <li> fragments,
\* the nearest list tag before the first is a <ul> and the nearest after the last
\* is a </ul>, so no run is split into several lists (and there are never more
\* lists than runs; with only recognized kinds each run is wrapped exactly); the
\* sequence [section-header, item, item, submit-button] yields heading, one list
\* of two items, submit control.
C1_RunInOneList ==
    pc = "render_done" =>
        LET elements == LoopElements(ui)
            runs == MaximalRuns(elements)
        IN  /\ Count(html, "<li>") = Cardinality({i \in 1..Len(elements) : IsItem(elements[i])})
            /\ Count(html, "<ul>") = Count(html, "</ul>")
            /\ Count(html, "<ul>") <= Cardinality(runs)
            /\ \A r \in runs :
                 LET first == ItemPos(html, elements, r[1])
                     last == ItemPos(html, elements, r[2])
                 IN  /\ last - first = r[2] - r[1]
                     /\ \A p \in first..last : html[p].tag = "<li>"
                     /\ \A i \in r[1]..r[2] :
                          html[first + (i - r[1])].args = <<OrEmpty(Get(elements[i], "value"))>>
                     /\ \E o \in 1..(first - 1) :
                          /\ html[o].tag = "<ul>"
                          /\ \A q \in (o + 1)..(first - 1) : ~IsListTag(html[q])
                     /\ \E c \in (last + 1)..Len(html) :
                          /\ html[c].tag = "</ul>"
                          /\ \A q \in (last + 1)..(c - 1) : ~IsListTag(html[q])
                     /\ (\A i \in 1..Len(elements) : TypeOf(elements[i]) \in ElementTypes)
                          => html[first - 1].tag = "<ul>" /\ html[last + 1].tag = "</ul>"
            /\ elements = ExampleElements => html = ExampleMarkup

C1_Witness ==
    /\ pc = "render_done"
    /\ LoopElements(ui) = ExampleElements
    /\ html = ExampleMarkup

\* C2 (as claimed): once a non-item element has been processed no grouping is open,
\* whatever the element's kind; and none is open in the returned markup.
C2_ClosedBeforeNonItem ==
    /\ (pc = "render_loop" /\ idx > 1 /\ ~IsItem(LoopElements(ui)[idx - 1])) => ~inList
    /\ pc = "render_done" => Depth(html) = 0

Recognized(elements) == SelectSeq(elements, LAMBDA e : TypeOf(e) \in ElementTypes)

NonListMarkup(h) == SelectSeq(h, LAMBDA frag : ~IsListTag(frag))

\* C3: an element of unrecognized kind is skipped with one warning and contributes
\* no markup: the markup of the elements themselves (list tags aside) is, in order,
\* that of the recognized elements alone, and rendering runs to the closing </form>.
C3_UnknownSkipped ==
    /\ pc = "render_done" =>
         LET elements == LoopElements(ui)
             known == JObj([type |-> Str("cv-form"), elements |-> JArr(Recognized(elements))])
         IN  /\ NonListMarkup(html) = NonListMarkup(convertToHTML(known))
             /\ html[Len(html)].tag = "</form>"
             /\ Len(errlog) = Len(elements) - Len(Recognized(elements))
    /\ pc = "render_loop" => idx <= Len(LoopElements(ui)) + 1

C3_Witness ==
    /\ pc = "render_done"
    /\ Len(LoopElements(ui)) = 3
    /\ TypeOf(LoopElements(ui)[1]) = "section-header"
    /\ TypeOf(LoopElements(ui)[2]) = "checkbox"
    /\ TypeOf(LoopElements(ui)[3]) = "submit-button"
    /\ errlog = <<UnknownTypeWarning>>
    /\ Count(html, "<h2>") = 1
    /\ Count(html, "<button") = 1

\* C10: after every prefix the <ul> openings minus the </ul> closings is 0 or 1, and
\* 1 exactly when inList; every <li> is emitted at difference 1; the returned markup
\* has difference 0 and ends with its only </form>.
C10_ListBalance ==
    /\ pc = "render_loop" => Depth(html) = (IF inList THEN 1 ELSE 0)
    /\ \A j \in 1..Len(html) :
         /\ Depth(SubSeq(html, 1, j)) \in {0, 1}
         /\ html[j].tag = "<li>" => Depth(SubSeq(html, 1, j)) = 1
    /\ pc = "render_done" =>
         /\ Depth(html) = 0
         /\ Positions(html, "</form>") = {Len(html)}

C10_Witness ==
    /\ pc = "render_done"
    /\ Count(html, "<ul>") = 2
    /\ Count(html, "<li>") = 3
    /\ inList

(***************************************************************************)
(* Properties of a script run (checked under Spec)                         *)
(***************************************************************************)
\* the extractor has returned to main
Returned == pc \in {"result", "render", "write", "returned", "exited"} /\ calls > 0

\* the endpoint resolved and the response carries a string at the text position
GotText == calls > 0 /\ outcome # Rejected /\ ChainedText(outcome).t = "string"

RawText == ChainedText(outcome).s

\* the failure a diagnostic names
KindOf(entry) ==
    CASE entry.msg \in {"Unexpected response format from Gemini:", "Model returned no text."} ->
            "EmptyResponse"
      [] entry.msg = NoJsonMessage -> "NoJsonFound"
      [] entry.msg = ParseMessage -> "MalformedJson"
      [] entry.msg \in {CatchMessage(s) : s \in Scripts} /\ entry.error = "ZodError" ->
            "SchemaViolation"
      [] entry.msg \in {CatchMessage(s) : s \in Scripts} /\ entry.error = "TransportError" ->
            "TransportFailure"
      [] OTHER -> "Other"

Failure == IF errlog = <<>> THEN "none" ELSE KindOf(errlog[1])

\* no "{", or no "}", or the last "}" before the first "{"
LacksBraces(s) ==
    \/ \A i \in 1..Len(s) : s[i] # LB
    \/ \A i \in 1..Len(s) : s[i] # RB
    \/ \E i \in 1..Len(s) :
         /\ s[i] = RB
         /\ \A j \in (i + 1)..Len(s) : s[j] # RB
         /\ \E k \in (i + 1)..Len(s) : s[k] = LB /\ \A j \in 1..(k - 1) : s[j] # LB

\* C4 (as claimed): a text without a "{", without a "}", or with its last "}" before
\* its first "{" fails with NoJsonFound, and neither JSON.parse nor the schema is
\* tried, in each of the four scripts.
C4_NoBracesIsNoJsonFound ==
    (Returned /\ GotText /\ LacksBraces(RawText)) =>
        /\ Failure = "NoJsonFound"
        /\ ret = JNull
        /\ steps \cap {"parse", "validate"} = {}

\* C5 (as claimed): when the first-"{"-to-last-"}" slice of the text is well-formed
\* JSON that the script's schema accepts, the value returned equals the parsed
\* payload: no field added, removed or changed.
C5_RoundTrip ==
    (Returned /\ GotText /\ ~LacksBraces(RawText)
        /\ JsonParse(JsonSlice(RawText)).ok
        /\ ZodParse(SchemaOf(script), JsonParse(JsonSlice(RawText)).value).ok) =>
        /\ Failure = "none"
        /\ ret = JsonParse(JsonSlice(RawText)).value

\* C6 (as claimed): on a failed extraction the value returned to main carries the
\* failure reason, so the four kinds differ in the returned value.
C6_ReasonInReturnedValue ==
    (Returned /\ Failure \in {"EmptyResponse", "NoJsonFound", "MalformedJson",
                              "SchemaViolation"}) =>
        Get(ret, "reason") = Str(Failure)

\* C7 (as claimed): with the credential present no exception leaves main, every
\* failure ends in the "no result" outcome and the process exits with status 0.
C7_NothingEscapesMain ==
    apiKey =>
        /\ ~uncaught
        /\ pc = "exited" => exitCode = 0

\* C8 (as claimed): a response with no text at candidates[0].content.parts[0].text
\* fails with EmptyResponse and nothing else, before any brace is scanned.
C8_NoTextIsEmptyResponse ==
    (Returned /\ outcome # Rejected /\ ChainedText(outcome).t = "undefined") =>
        /\ Len(errlog) = 1
        /\ Failure = "EmptyResponse"
        /\ ret = JNull
        /\ "scan" \notin steps

\* how far the run still is from its end
Remaining ==
    CASE pc = "startup" -> 11
      [] pc = "main" -> 10
      [] pc = "call" -> 9
      [] pc = "response" -> 8
      [] pc = "scan" -> 7
      [] pc = "parse" -> 6
      [] pc = "validate" -> 5
      [] pc = "result" -> 4
      [] pc = "render" -> 3
      [] pc = "write" -> 2
      [] pc = "returned" -> 1
      [] OTHER -> 0

\* C9: the endpoint is called at most once per run; once the call has had its
\* outcome no step leads back to it and every step brings the run nearer its end,
\* which it can always reach; without the credential the process exits with a
\* non-zero status and no call.
C9_ZeroRetry ==
    /\ [](/\ calls <= 1
          /\ (calls = 1 => pc # "call")
          /\ (~apiKey => calls = 0)
          /\ (~apiKey /\ pc = "exited" => exitCode # 0)
          /\ (pc = "exited" => exitCode \in {0, 1})
          /\ (pc # "exited" => ENABLED Next))
    /\ [][/\ calls' \in {calls, calls + 1}
          /\ calls' = calls + 1 <=> pc = "call"
          /\ Remaining' < Remaining]_vars

C9_Witness ==
    /\ pc = "exited"
    /\ calls = 1
    /\ Failure = "SchemaViolation"
    /\ report = "no result"
    /\ exitCode = 0

====
